---- MODULE Spec2Model ----
(***************************************************************************)
(* The connection registry and broadcast engine of twitch-ext-pong.        *)
(*                                                                         *)
(* The repository holds two builds of server/main.go that handle           *)
(* paddle_update frames:                                                   *)
(*   "main"      src/server/main.go     (untyped payload, broadcast called *)
(*                                       while the write lock is held)     *)
(*   "validated" src/unnamed/part_002   (typed payload, Validate, reaping  *)
(*                                       of dead connections)              *)
(* The variable build records which of the two is running; it never        *)
(* changes.  One session (one goroutine running handleWS) exists per       *)
(* connection, so a session and its *websocket.Conn share one identity.    *)
(***************************************************************************)
EXTENDS Integers, Sequences, FiniteSets, TLC

\* ---------------------------------------------------------------- bounds
\* Total number of inbound frames the clients send.
MaxFrames == 2

\* The connections: two clients, each served by its own session.
Sessions == {"A", "B"}

\* The y coordinates clients send: below, on the edges of, inside and above
\* the canvas (the edges are 0 and 600).
Ys == {-1, 0, 600, 601}

Builds == {"main", "validated"}

None == "none"

\* ------------------------------------------------------- wire format
TypeInitialState == "initial_state"
TypePaddleUpdate == "paddle_update"
TypeTeamAssign == "team_assign"

\* A JSON value of a payload field: a string, a number, or not there at all.
JStr(s) == [t |-> "string", s |-> s, n |-> 0]
JNum(n) == [t |-> "number", s |-> "", n |-> n]
JAbsent == [t |-> "absent", s |-> "", n |-> 0]

\* A payload that is a JSON object with the fields side and y.
JObject(side, y) == [shape |-> "object", side |-> side, y |-> y]
\* A payload that is valid JSON but no object (a bare number).
JScalar == [shape |-> "scalar", side |-> JAbsent, y |-> JAbsent]

\* An inbound text frame: wellFormed says whether it is valid JSON at all.
Frame(ok, type, payload) == [wellFormed |-> ok, type |-> type, payload |-> payload]

PaddleFrame(side, y) == Frame(TRUE, TypePaddleUpdate, JObject(JStr(side), JNum(y)))

\* paddle_update frames whose payload is an object of the wrong shape: one
\* with a side that is neither left nor right, and one with a side of the
\* wrong type and no y.
MisshapenFrames ==
    {Frame(TRUE, TypePaddleUpdate, JObject(JStr("up"), JNum(0))),
     Frame(TRUE, TypePaddleUpdate, JObject(JNum(1), JAbsent))}

\* The frames the clients of the model send.
InputFrames ==
    {PaddleFrame(side, y) : side \in {"left", "right"}, y \in Ys}
    \cup MisshapenFrames
    \cup {Frame(TRUE, TypePaddleUpdate, JScalar),
          Frame(TRUE, TypeTeamAssign, JObject(JStr("left"), JAbsent)),
          Frame(FALSE, "", JScalar)}

\* Message{Type, Payload} as the server holds it after ReadJSON.
Message(f) == [Type |-> f.type, Payload |-> f.payload]

NoMessage == [Type |-> "", Payload |-> JScalar]

\* ------------------------------------------------------------- state
VARIABLES
    build,            \* which main.go is running
    connections,      \* Server.connections: the set of registered conns
    connectionCount,  \* Server.connectionCount
    gameState,        \* Server.gameState
    writer,           \* RWMutex: the goroutine inside Lock() .. Unlock()
    readers,          \* RWMutex: the goroutines between RLock() and RUnlock()
    pc,               \* where each session's goroutine stands in handleWS
    msg,              \* handleWS: the Message being handled by each session
    initialMsg,       \* handleWS: the copy of s.gameState under construction
    todo,             \* broadcast: connections the range loop still visits
    deadConns,        \* broadcast: connections whose write failed
    inbox,            \* per connection: the messages written to its socket
    closed,           \* connections whose channel is dead (writes/reads fail)
    frames,           \* number of inbound frames read so far
    held,             \* history: every value s.gameState has held so far
    raced             \* history: sessions whose copy of s.gameState had an
                      \* update land between its two field reads

vars == <<build, connections, connectionCount, gameState, writer, readers, pc,
          msg, initialMsg, todo, deadConns, inbox, closed, frames, held,
          raced>>

\* NewServer: LeftPaddle 300, RightPaddle 300.
InitialPaddle == 300

NewServer ==
    /\ connections = {}
    /\ connectionCount = 0
    /\ gameState = [LeftPaddle |-> InitialPaddle, RightPaddle |-> InitialPaddle]
    /\ writer = None
    /\ readers = {}

Unread == [LeftPaddle |-> <<>>, RightPaddle |-> <<>>]

Init ==
    /\ build \in Builds
    /\ NewServer
    /\ pc = [s \in Sessions |-> "Connecting"]
    /\ msg = [s \in Sessions |-> NoMessage]
    /\ initialMsg = [s \in Sessions |-> Unread]
    /\ todo = [s \in Sessions |-> {}]
    /\ deadConns = [s \in Sessions |-> <<>>]
    /\ inbox = [s \in Sessions |-> <<>>]
    /\ closed = {}
    /\ frames = 0
    /\ held = {gameState}
    /\ raced = {}

\* ------------------------------------------------- decoding, validation
\* Canvas height of PaddlePosition.Validate.
CanvasHeight == 600

\* PaddlePosition.Validate: nil (TRUE) unless Y < 0 or Y > 600.
Validate(p) == ~(p.Y < 0 \/ p.Y > CanvasHeight)

\* json.Unmarshal(msg.Payload, &paddlePos): an error when the payload is no
\* object or a field has the wrong JSON type; an absent field keeps the zero
\* value of its Go type.
Unmarshal(payload) ==
    [err  |-> \/ payload.shape # "object"
              \/ payload.side.t = "number"
              \/ payload.y.t = "string",
     Side |-> IF payload.side.t = "string" THEN payload.side.s ELSE "",
     Y    |-> IF payload.y.t = "number" THEN payload.y.n ELSE 0]

\* The three type assertions of src/server/main.go.
IsMap(payload) == payload.shape = "object"
SideIsString(payload) == payload.side.t = "string"
YIsFloat(payload) == payload.y.t = "number"

\* Dispatch changed to decode the payload of a Message of any type as a
\* paddle update.
DispatchAnyType(b, m) ==
    IF b = "main"
    THEN IF IsMap(m.Payload) THEN "UpdLock" ELSE "Read"
    ELSE IF Unmarshal(m.Payload).err THEN "Read"
         ELSE IF ~Validate(Unmarshal(m.Payload)) THEN "Read"
         ELSE "UpdLock"

\* handleWS, from a decoded Message to the point where the loop either goes
\* back to ReadJSON or calls s.Lock(): the pc the session moves to.
Dispatch(b, m) ==
    IF m.Type # TypePaddleUpdate THEN "Read"
    ELSE IF b = "main"
         THEN IF IsMap(m.Payload) THEN "UpdLock" ELSE "Read"
         ELSE IF Unmarshal(m.Payload).err THEN "Read"
              ELSE IF ~Validate(Unmarshal(m.Payload)) THEN "Read"
              ELSE "UpdLock"

\* ------------------------------------------------------- sync.RWMutex
\* pc values at which a session has called s.Lock() and not yet got past
\* the other writers, and at which it waits for the readers to leave.
LockSites == {"RegLock", "UpdLock", "ReapLock", "UnregLock"}

WaitSite(site) ==
    CASE site = "RegLock" -> "RegWait"
      [] site = "UpdLock" -> "UpdWait"
      [] site = "ReapLock" -> "ReapWait"
      [] site = "UnregLock" -> "UnregWait"

WaitSites == {WaitSite(site) : site \in LockSites}

\* The session holds the lock in exclusive mode: it is the writer and every
\* reader has left.  A writer that still waits for readers holds nothing.
HoldsExclusive(s) == writer = s /\ pc[s] \notin WaitSites

HoldsShared(s) == s \in readers

\* ---------------------------------------------------------- operations
\* upgrader.Upgrade succeeds.
Upgrade(s) ==
    /\ pc[s] = "Connecting"
    /\ pc' = [pc EXCEPT ![s] = "RegLock"]
    /\ UNCHANGED <<build, held, raced, connections, connectionCount, gameState, writer,
                   readers, msg, initialMsg, todo, deadConns, inbox, closed,
                   frames>>

\* upgrader.Upgrade fails: handleWS returns before anything is registered.
UpgradeFails(s) ==
    /\ pc[s] = "Connecting"
    /\ pc' = [pc EXCEPT ![s] = "Failed"]
    /\ closed' = closed \cup {s}
    /\ UNCHANGED <<build, held, raced, connections, connectionCount, gameState, writer,
                   readers, msg, initialMsg, todo, deadConns, inbox, frames>>

\* s.Lock(), first half: take the writer slot.  From here on RLock() blocks.
Lock(s) ==
    /\ pc[s] \in LockSites
    /\ writer = None
    /\ writer' = s
    /\ pc' = [pc EXCEPT ![s] = WaitSite(pc[s])]
    /\ UNCHANGED <<build, held, raced, connections, connectionCount, gameState, readers,
                   msg, initialMsg, todo, deadConns, inbox, closed, frames>>

\* handleWS: s.connections[conn] = true; s.connectionCount++; s.Unlock().
register(s) ==
    /\ connections' = connections \cup {s}
    /\ connectionCount' = connectionCount + 1
    /\ writer' = None
    /\ pc' = [pc EXCEPT ![s] = "Snapshot"]
    /\ UNCHANGED <<gameState, held, raced, readers, msg, todo, deadConns, closed>>

\* unregistered changed to leave the counter alone.
unregisteredKeepingCount(conns, count, c) ==
    [connections |-> conns \ {c}, connectionCount |-> count]

\* The registry after delete(s.connections, conn); s.connectionCount--.
\* delete is a no-op on an absent key; the decrement has no condition.
unregistered(conns, count, c) ==
    [connections |-> conns \ {c}, connectionCount |-> count - 1]

\* The deferred function of handleWS: delete(s.connections, conn);
\* s.connectionCount--; s.Unlock(); conn.Close().
unregister(s) ==
    /\ connections' = unregistered(connections, connectionCount, s).connections
    /\ connectionCount' =
           unregistered(connections, connectionCount, s).connectionCount
    /\ writer' = None
    /\ closed' = closed \cup {s}
    /\ pc' = [pc EXCEPT ![s] = "Closed"]
    /\ UNCHANGED <<gameState, held, raced, readers, msg, todo, deadConns>>

\* The session has copied one field of s.gameState and not yet the other.
MidCopy(s) ==
    /\ pc[s] = "Snapshot"
    /\ \E f \in DOMAIN Unread : initialMsg[s][f] # <<>>

\* src/server/main.go: the update under s.Lock().  When both assertions
\* hold the side named is set and broadcast is called with the lock held.
applyUpdateMain(s) ==
    LET pos == msg[s].Payload IN
    IF SideIsString(pos) /\ YIsFloat(pos)
    THEN /\ gameState' = IF pos.side.s = "left"
                         THEN [gameState EXCEPT !.LeftPaddle = pos.y.n]
                         ELSE [gameState EXCEPT !.RightPaddle = pos.y.n]
         /\ pc' = [pc EXCEPT ![s] = "BcastRLock"]
         /\ UNCHANGED <<writer, msg>>
    ELSE /\ writer' = None
         /\ pc' = [pc EXCEPT ![s] = "Read"]
         /\ msg' = [msg EXCEPT ![s] = NoMessage]
         /\ UNCHANGED gameState

\* applyUpdateValidated changed to set the side the frame names.
applyUpdateNamedSide(s) ==
    /\ gameState' = IF Unmarshal(msg[s].Payload).Side = "left"
                     THEN [gameState EXCEPT
                               !.LeftPaddle = Unmarshal(msg[s].Payload).Y]
                     ELSE [gameState EXCEPT
                               !.RightPaddle = Unmarshal(msg[s].Payload).Y]
    /\ writer' = None
    /\ pc' = [pc EXCEPT ![s] = "BcastRLock"]
    /\ UNCHANGED msg

\* src/unnamed/part_002: s.gameState.LeftPaddle = paddlePos.Y; s.Unlock();
\* then broadcast is called.
applyUpdateValidated(s) ==
    /\ gameState' = [gameState EXCEPT !.LeftPaddle = Unmarshal(msg[s].Payload).Y]
    /\ writer' = None
    /\ pc' = [pc EXCEPT ![s] = "BcastRLock"]
    /\ UNCHANGED msg

applyUpdate(s) ==
    /\ IF build = "main" THEN applyUpdateMain(s) ELSE applyUpdateValidated(s)
    /\ held' = held \cup {gameState'}
    /\ raced' = raced \cup {r \in Sessions : gameState' # gameState /\ MidCopy(r)}
    /\ UNCHANGED <<connections, connectionCount, readers, todo, deadConns,
                   closed>>

\* The elements of a sequence.
Range(q) == {q[i] : i \in 1..Len(q)}

\* broadcast of part_002, lines 98-109: every collected connection is
\* deleted and the count decremented once per entry; s.Unlock(); then the
\* deferred s.RUnlock() runs and broadcast returns into the read loop.
reap(s) ==
    /\ connections' = connections \ Range(deadConns[s])
    /\ connectionCount' = connectionCount - Len(deadConns[s])
    /\ writer' = None
    /\ readers' = readers \ {s}
    /\ pc' = [pc EXCEPT ![s] = "Read"]
    /\ msg' = [msg EXCEPT ![s] = NoMessage]
    /\ deadConns' = [deadConns EXCEPT ![s] = <<>>]
    /\ UNCHANGED <<gameState, held, raced, todo, closed>>

\* s.Lock(), second half: every reader has left, so the critical section
\* runs; each one ends in s.Unlock() except the update of main.go.
LockAcquired(s) ==
    /\ pc[s] \in WaitSites
    /\ writer = s
    /\ readers = {}
    /\ CASE pc[s] = "RegWait" -> register(s)
         [] pc[s] = "UnregWait" -> unregister(s)
         [] pc[s] = "UpdWait" -> applyUpdate(s)
         [] pc[s] = "ReapWait" -> reap(s)
    /\ UNCHANGED <<build, initialMsg, inbox, frames>>

\* handleWS "Payload: s.gameState": the struct is copied with no lock held,
\* one field at a time, in an order the build chooses.
ReadGameState(s, f) ==
    /\ pc[s] = "Snapshot"
    /\ initialMsg[s][f] = <<>>
    /\ initialMsg' = [initialMsg EXCEPT ![s][f] = <<gameState[f]>>]
    /\ pc' = [pc EXCEPT ![s] =
                 IF \A g \in DOMAIN Unread : initialMsg'[s][g] # <<>>
                 THEN "SendInitial" ELSE "Snapshot"]
    /\ UNCHANGED <<build, held, raced, connections, connectionCount, gameState, writer,
                   readers, msg, todo, deadConns, inbox, closed, frames>>

InitialState(snap) ==
    [Type |-> TypeInitialState,
     Payload |-> [LeftPaddle |-> snap.LeftPaddle[1],
                  RightPaddle |-> snap.RightPaddle[1]]]

\* conn.WriteJSON(m) on connection c: the inboxes after the call.  A write
\* to a dead channel fails and delivers nothing.
WriteJSON(c, m) ==
    IF c \in closed THEN inbox ELSE [inbox EXCEPT ![c] = Append(@, m)]

\* handleWS: conn.WriteJSON(initialMsg); an error is only logged.  The
\* copy is not used again after the write.
SendInitial(s) ==
    /\ pc[s] = "SendInitial"
    /\ inbox' = WriteJSON(s, InitialState(initialMsg[s]))
    /\ initialMsg' = [initialMsg EXCEPT ![s] = Unread]
    /\ raced' = raced \ {s}
    /\ pc' = [pc EXCEPT ![s] = "Read"]
    /\ UNCHANGED <<build, held, connections, connectionCount, gameState,
                   writer, readers, msg, todo, deadConns, closed, frames>>

\* conn.ReadJSON returns a frame.  A frame that is no JSON makes ReadJSON
\* return the decoder's error, and the loop breaks into the deferred
\* unregister; a decoded frame is dispatched.  msg is declared inside the
\* loop: an iteration that ends leaves no Message behind.
ReadJSON(s, f) ==
    /\ pc[s] = "Read"
    /\ s \notin closed
    /\ frames < MaxFrames
    /\ frames' = frames + 1
    /\ IF f.wellFormed
       THEN /\ pc' = [pc EXCEPT ![s] = Dispatch(build, Message(f))]
            /\ msg' = [msg EXCEPT ![s] =
                           IF pc'[s] = "Read" THEN NoMessage ELSE Message(f)]
       ELSE /\ msg' = msg
            /\ pc' = [pc EXCEPT ![s] = "UnregLock"]
    /\ UNCHANGED <<build, held, raced, connections, connectionCount, gameState, writer,
                   readers, initialMsg, todo, deadConns, inbox, closed>>

\* conn.ReadJSON fails because the channel is dead: break.
ReadError(s) ==
    /\ pc[s] = "Read"
    /\ s \in closed
    /\ pc' = [pc EXCEPT ![s] = "UnregLock"]
    /\ UNCHANGED <<build, held, raced, connections, connectionCount, gameState, writer,
                   readers, msg, initialMsg, todo, deadConns, inbox, closed,
                   frames>>

\* The peer goes away or the channel is force-closed from outside.
ChannelDies(c) ==
    /\ pc[c] \notin {"Connecting", "Failed", "Closed"}
    /\ c \notin closed
    /\ closed' = closed \cup {c}
    /\ UNCHANGED <<build, held, raced, connections, connectionCount, gameState, writer,
                   readers, pc, msg, initialMsg, todo, deadConns, inbox,
                   frames>>

\* RLock changed to return although a goroutine is inside Lock().
RLockPastWriter(s) ==
    /\ pc[s] = "BcastRLock"
    /\ readers' = readers \cup {s}
    /\ todo' = [todo EXCEPT ![s] = connections]
    /\ deadConns' = [deadConns EXCEPT ![s] = <<>>]
    /\ pc' = [pc EXCEPT ![s] = "Deliver"]
    /\ UNCHANGED <<build, held, raced, connections, connectionCount, gameState,
                   writer, msg, initialMsg, inbox, closed, frames>>

\* broadcast: s.RLock(), which blocks while any goroutine is inside Lock();
\* the range loop then starts over s.connections.
RLock(s) ==
    /\ pc[s] = "BcastRLock"
    /\ writer = None
    /\ readers' = readers \cup {s}
    /\ todo' = [todo EXCEPT ![s] = connections]
    /\ deadConns' = [deadConns EXCEPT ![s] = <<>>]
    /\ pc' = [pc EXCEPT ![s] = "Deliver"]
    /\ UNCHANGED <<build, held, raced, connections, connectionCount, gameState, writer,
                   msg, initialMsg, inbox, closed, frames>>

\* Deliver changed to leave the range loop at the first failed write.
DeliverAborting(s, c) ==
    /\ pc[s] = "Deliver"
    /\ c \in todo[s]
    /\ inbox' = WriteJSON(c, msg[s])
    /\ todo' = [todo EXCEPT ![s] = IF c \in closed THEN {} ELSE @ \ {c}]
    /\ deadConns' = [deadConns EXCEPT ![s] =
                        IF c \in closed /\ build = "validated"
                        THEN Append(@, c) ELSE @]
    /\ UNCHANGED <<build, held, raced, connections, connectionCount, gameState,
                   writer, readers, pc, msg, initialMsg, closed, frames>>

\* Deliver changed to delete a connection inside the range loop as soon as
\* its write fails.
DeliverReaping(s, c) ==
    /\ pc[s] = "Deliver"
    /\ c \in todo[s]
    /\ inbox' = WriteJSON(c, msg[s])
    /\ todo' = [todo EXCEPT ![s] = @ \ {c}]
    /\ deadConns' = [deadConns EXCEPT ![s] =
                        IF c \in closed /\ build = "validated"
                        THEN Append(@, c) ELSE @]
    /\ connections' = IF c \in closed THEN connections \ {c} ELSE connections
    /\ connectionCount' =
           IF c \in closed THEN connectionCount - 1 ELSE connectionCount
    /\ UNCHANGED <<build, held, raced, gameState, writer, readers, pc, msg,
                   initialMsg, closed, frames>>

\* broadcast: one iteration of the range loop, conn.WriteJSON(msg).  In
\* part_002 a failed write appends the connection to deadConns; main.go
\* only logs it.
Deliver(s, c) ==
    /\ pc[s] = "Deliver"
    /\ c \in todo[s]
    /\ inbox' = WriteJSON(c, msg[s])
    /\ todo' = [todo EXCEPT ![s] = @ \ {c}]
    /\ deadConns' = [deadConns EXCEPT ![s] =
                        IF c \in closed /\ build = "validated"
                        THEN Append(@, c) ELSE @]
    /\ UNCHANGED <<build, held, raced, connections, connectionCount, gameState, writer,
                   readers, pc, msg, initialMsg, closed, frames>>

\* broadcast after the loop (msg and deadConns go out of scope when the
\* iteration of the read loop ends).  main.go: s.RUnlock(), return, and handleWS
\* calls s.Unlock().  part_002: with failures collected s.Lock() is called
\* (the read lock is still held: RUnlock is deferred); with none, the
\* deferred s.RUnlock() runs.
EndOfLoop(s) ==
    /\ pc[s] = "Deliver"
    /\ todo[s] = {}
    /\ IF build = "main"
       THEN /\ readers' = readers \ {s}
            /\ writer' = None
            /\ pc' = [pc EXCEPT ![s] = "Read"]
            /\ msg' = [msg EXCEPT ![s] = NoMessage]
       ELSE IF Len(deadConns[s]) > 0
            THEN /\ pc' = [pc EXCEPT ![s] = "ReapLock"]
                 /\ UNCHANGED <<readers, writer, msg>>
            ELSE /\ readers' = readers \ {s}
                 /\ pc' = [pc EXCEPT ![s] = "Read"]
                 /\ msg' = [msg EXCEPT ![s] = NoMessage]
                 /\ UNCHANGED writer
    /\ UNCHANGED <<build, held, raced, connections, connectionCount, gameState,
                   initialMsg, todo, deadConns, inbox, closed, frames>>

Next ==
    \/ \E s \in Sessions : Upgrade(s)
    \/ \E s \in Sessions : UpgradeFails(s)
    \/ \E s \in Sessions : Lock(s)
    \/ \E s \in Sessions : LockAcquired(s)
    \/ \E s \in Sessions : \E f \in DOMAIN Unread : ReadGameState(s, f)
    \/ \E s \in Sessions : SendInitial(s)
    \/ \E s \in Sessions : \E f \in InputFrames : ReadJSON(s, f)
    \/ \E s \in Sessions : ReadError(s)
    \/ \E c \in Sessions : ChannelDies(c)
    \/ \E s \in Sessions : RLock(s)
    \/ \E s \in Sessions : \E c \in Sessions : Deliver(s, c)
    \/ \E s \in Sessions : EndOfLoop(s)

Spec == Init /\ [][Next]_vars

\* The steps of the goroutine of session s that need nothing from its peer:
\* everything but the upgrade and the arrival of a frame.
Step(s) ==
    \/ Lock(s)
    \/ LockAcquired(s)
    \/ \E f \in DOMAIN Unread : ReadGameState(s, f)
    \/ SendInitial(s)
    \/ ReadError(s)
    \/ RLock(s)
    \/ \E c \in Sessions : Deliver(s, c)
    \/ EndOfLoop(s)

\* The Go scheduler runs every runnable goroutine, and sync.RWMutex starves
\* neither readers nor writers: a goroutine whose next step is possible
\* again and again takes it.
FairSpec == Spec /\ \A s \in Sessions : SF_vars(Step(s))

\* ============================================================== claims
InBounds(y) == y >= 0 /\ y <= CanvasHeight

\* ------------------------------------------------------------- client
\* src/src/index.js: gameState before any message has arrived.
ClientInitial == [leftPaddle |-> JNum(0), rightPaddle |-> JNum(0)]

\* The JSON object the server's GameState is encoded as: the field tags
\* leftPaddle and rightPaddle, each a number.
EncodeGameState(g) ==
    [leftPaddle |-> JNum(g.LeftPaddle), rightPaddle |-> JNum(g.RightPaddle)]

\* ws.onmessage: an initial_state replaces gameState by the payload; a
\* paddle_update stores pos.y, whatever it is, in leftPaddle when pos.side
\* is the string left and in rightPaddle otherwise; other types are ignored.
OnMessage(g, m) ==
    IF m.Type = TypeInitialState THEN EncodeGameState(m.Payload)
    ELSE IF m.Type = TypePaddleUpdate
         THEN IF m.Payload.side = JStr("left")
              THEN [g EXCEPT !.leftPaddle = m.Payload.y]
              ELSE [g EXCEPT !.rightPaddle = m.Payload.y]
         ELSE g

\* The gameState of a client after the messages of q, in arrival order.
RECURSIVE ClientState(_)
ClientState(q) ==
    IF q = <<>> THEN ClientInitial
    ELSE OnMessage(ClientState(SubSeq(q, 1, Len(q) - 1)), q[Len(q)])

\* A well-typed paddle_update: an object with a string side and a number y.
WellTyped(payload) ==
    IsMap(payload) /\ SideIsString(payload) /\ YIsFloat(payload)

\* A paddle_update frame whose y lies outside the canvas.
OutOfBounds(f) ==
    /\ f.wellFormed
    /\ f.type = TypePaddleUpdate
    /\ WellTyped(f.payload)
    /\ ~InBounds(f.payload.y.n)

\* C1: in every reachable state both paddles of GameState lie within
\* [0, 600].
C1_PaddlesWithinCanvas ==
    /\ InBounds(gameState.LeftPaddle)
    /\ InBounds(gameState.RightPaddle)

\* RLock() cannot return: some goroutine is inside Lock() .. Unlock().
BlockedInRLock(s) == pc[s] = "BcastRLock" /\ writer # None

\* Lock() cannot return: the writer slot is taken, or readers remain.
BlockedInLock(s) ==
    \/ pc[s] \in LockSites /\ writer # None
    \/ pc[s] \in WaitSites /\ readers # {}

\* C3: no session that holds the registry lock, in shared or in exclusive
\* mode, is blocked waiting to acquire that same lock.
C3_NeverBlockedHoldingLock ==
    \A s \in Sessions :
        (HoldsExclusive(s) \/ HoldsShared(s))
            => ~(BlockedInRLock(s) \/ BlockedInLock(s))

C6_OutOfBoundsDropped ==
    [][\A s \in Sessions :
          /\ \A f \in InputFrames :
                (OutOfBounds(f) /\ ReadJSON(s, f)) =>
                    /\ pc'[s] = "Read"
                    /\ s \in connections'
                    /\ gameState' = gameState
                    /\ inbox' = inbox
          /\ (pc[s] = "UpdWait" /\ pc'[s] # "UpdWait"
                /\ ~InBounds(msg[s].Payload.y.n))
                => gameState' = gameState]_vars

\* C7: the GameState sent as initial_state equals a value that GameState
\* held at one single point in time, also when updates land while it is
\* being copied.
C7_SnapshotConsistent ==
    \A s \in Sessions :
        pc[s] = "SendInitial" => InitialState(initialMsg[s]).Payload \in held

\* A snapshot is complete although an update landed between its two reads.
C7_Witness ==
    \E s \in Sessions : pc[s] = "SendInitial" /\ s \in raced

\* C8: an accepted paddle_update sets the paddle of the side it names to y
\* and leaves the other paddle unchanged.
C8_OnlyNamedSide ==
    [][\A s \in Sessions :
          (pc[s] = "UpdWait" /\ pc'[s] = "BcastRLock") =>
              LET pos == msg[s].Payload IN
              /\ pos.side.s = "left" =>
                    /\ gameState'.LeftPaddle = pos.y.n
                    /\ gameState'.RightPaddle = gameState.RightPaddle
              /\ pos.side.s = "right" =>
                    /\ gameState'.RightPaddle = pos.y.n
                    /\ gameState'.LeftPaddle = gameState.LeftPaddle]_vars

\* A frame that fails to decode: no JSON at all, or a paddle_update whose
\* payload is not a well-typed PaddleUpdate.
DecodeFails(f) ==
    \/ ~f.wellFormed
    \/ f.type = TypePaddleUpdate /\ ~WellTyped(f.payload)

\* C9: a frame that fails to decode is dropped and the connection stays
\* open: the session does not leave its read loop and its connection stays
\* in the ConnectionSet.
C9_DecodeErrorKeepsConnection ==
    [][\A s \in Sessions : \A f \in InputFrames :
          (DecodeFails(f) /\ ReadJSON(s, f)) =>
              /\ pc'[s] # "UnregLock"
              /\ s \in connections']_vars

\* The number of times m occurs in the sequence q.
Count(q, m) == Cardinality({i \in 1..Len(q) : q[i] = m})

\* The valid updates of the model: well typed, naming a side and inside
\* the canvas.
ValidUpdates ==
    {Message(f) : f \in {g \in InputFrames :
        /\ g.wellFormed
        /\ g.type = TypePaddleUpdate
        /\ WellTyped(g.payload)
        /\ g.payload.side.s \in {"left", "right"}
        /\ InBounds(g.payload.y.n)}}

\* The paddle of GameState that the update m names.
NamedPaddle(m) ==
    IF m.Payload.side.s = "left"
    THEN gameState.LeftPaddle ELSE gameState.RightPaddle

\* Session s is about to apply the valid update m while every connection is
\* registered and open, no other session is busy, no frame is still to
\* come and no paddle_update has been delivered before.
SendsFirstUpdate(s, m) ==
    /\ pc[s] = "UpdLock"
    /\ msg[s] = m
    /\ connections = Sessions
    /\ closed = {}
    /\ frames = MaxFrames
    /\ \A c \in Sessions \ {s} : pc[c] = "Read"
    /\ \A c \in Sessions : \A i \in 1..Len(inbox[c]) :
           inbox[c][i].Type # TypePaddleUpdate

\* C2: when N connections are registered, no channel fails and one of them
\* sends a valid paddle_update, every connection (the sender included)
\* eventually has received exactly one paddle_update with that side and y,
\* and GameState holds the new value.
C2_BroadcastCompleteness ==
    \A s \in Sessions : \A m \in ValidUpdates :
        SendsFirstUpdate(s, m) ~>
            \/ closed # {}
            \/ /\ \A c \in Sessions : Count(inbox[c], m) = 1
               /\ NamedPaddle(m) = m.Payload.y.n

\* C4: when exactly one of the N registered connections has a dead channel,
\* a broadcast delivers to the other N-1, removes the dead one and
\* completes with the registry size and the count both N-1.
C4_ReapingOnPartialFailure ==
    \A s \in Sessions : \A d \in Sessions \ {s} : \A m \in ValidUpdates :
        (/\ pc[s] = "BcastRLock"
         /\ msg[s] = m
         /\ connections = Sessions
         /\ closed = {d})
        ~>
            \/ closed # {d}
            \/ /\ pc[s] = "Read"
               /\ connections = Sessions \ {d}
               /\ connectionCount = Cardinality(Sessions) - 1
               /\ \A c \in Sessions \ {d} : Count(inbox[c], m) >= 1

\* C10: a write failure to one connection during a broadcast does not stop
\* another session: the session whose broadcast met the failure on a
\* connection other than its own returns to its read loop, unless its own
\* channel fails too.
C10_ErrorsContained ==
    \A s \in Sessions :
        (/\ pc[s] = "Deliver"
         /\ Len(deadConns[s]) > 0
         /\ s \notin Range(deadConns[s])
         /\ s \notin closed)
        ~> (pc[s] = "Read" \/ s \in closed)

\* C11: whenever the read loop of a session ends, its connection is
\* eventually absent from the ConnectionSet and the session Closed.
C11_LoopEndUnregisters ==
    \A s \in Sessions :
        (pc[s] = "UnregLock") ~> (pc[s] = "Closed" /\ s \notin connections)

\* C12: registration always succeeds: every upgraded connection is
\* eventually in the ConnectionSet, whatever the other sessions are doing.
C12_RegistrationSucceeds ==
    \A s \in Sessions : (pc[s] = "RegLock") ~> (s \in connections)

\* The write of m to connection c was attempted by the delivery pass of s:
\* it arrived, or it failed and the connection was collected.
Attempted(s, c, m) ==
    m \in Range(inbox[c]) \/ c \in Range(deadConns[s])

\* C13: a write failure to one peer never aborts the delivery pass: when
\* the range loop of a broadcast ends, a write has been attempted to every
\* connection that was registered when the pass began.
C13_FailureDoesNotAbortDelivery ==
    [][\A s \in Sessions :
          (pc[s] = "Deliver" /\ pc'[s] # "Deliver") =>
              \A c \in connections : Attempted(s, c, msg[s])]_vars

\* A delivery pass is over in which one write failed and another arrived.
C13_Witness ==
    \E s \in Sessions :
        /\ pc[s] = "ReapLock"
        /\ Len(deadConns[s]) > 0
        /\ \E c \in connections \ Range(deadConns[s]) :
               msg[s] \in Range(inbox[c])

\* C14: no socket write of a delivery pass is performed while any session
\* holds the registry lock in exclusive mode.
C14_NoWriteUnderExclusiveLock ==
    [][\A s \in Sessions : \A c \in Sessions :
          Deliver(s, c) => \A w \in Sessions : ~HoldsExclusive(w)]_vars

\* A delivery pass has written the update to every registered connection.
C14_Witness ==
    \E s \in Sessions :
        /\ pc[s] = "Deliver"
        /\ todo[s] = {}
        /\ connections = Sessions
        /\ \A c \in connections : msg[s] \in Range(inbox[c])

\* The step session s takes next is its critical section under Lock(): it
\* is the writer and no reader is left.
InCriticalSection(s) ==
    writer = s /\ (pc[s] \in WaitSites => readers = {})

\* C15: every read or write of the ConnectionSet, the GameState or the
\* counter is made by a session that holds the registry lock in the mode
\* required: exclusive for a mutation, at least shared for a read; so a
\* copy of GameState in progress never has a mutation land inside it.
C15_AccessesUnderLock ==
    [][/\ \A s \in Sessions : \A f \in DOMAIN Unread :
             ReadGameState(s, f) => (HoldsShared(s) \/ HoldsExclusive(s))
       /\ \A s \in Sessions : (pc[s] = "Deliver") => HoldsShared(s)
       /\ (<<connections, connectionCount, gameState>>'
              # <<connections, connectionCount, gameState>>)
             => \E s \in Sessions : InCriticalSection(s)
       /\ (\E s \in Sessions : MidCopy(s)) => gameState' = gameState]_vars

\* C16: reaping is two-phase: failed connections are only collected while
\* the delivery pass runs, and while any session's delivery pass iterates
\* over the ConnectionSet nothing registers, unregisters or reaps.
C16_NoMutationDuringDelivery ==
    [][(\E s \in Sessions : pc[s] = "Deliver") =>
          /\ connections' = connections
          /\ connectionCount' = connectionCount]_vars

\* A delivery pass has collected a failed connection and is still
\* iterating; the connection is still in the ConnectionSet.
C16_Witness ==
    \E s \in Sessions :
        /\ pc[s] = "Deliver"
        /\ todo[s] # {}
        /\ Len(deadConns[s]) > 0
        /\ Range(deadConns[s]) \subseteq connections

\* C17: every registered connection is sent one initial_state, and it is
\* written to the connection before any paddle_update is: in every inbox
\* there is at most one initial_state and no paddle_update stands before it.
C17_InitialStateFirst ==
    \A c \in Sessions :
        /\ Cardinality({i \in 1..Len(inbox[c]) :
                           inbox[c][i].Type = TypeInitialState}) <= 1
        /\ \A i \in 1..Len(inbox[c]) :
              inbox[c][i].Type = TypePaddleUpdate =>
                  \E j \in 1..(i - 1) : inbox[c][j].Type = TypeInitialState

\* The payload has the PaddleUpdate shape: an object whose side is the
\* string left or right and whose y is a number.
MatchesShape(payload) ==
    WellTyped(payload) /\ payload.side.s \in {"left", "right"}

\* C18: a paddle_update whose payload does not have the PaddleUpdate shape
\* is rejected as a whole: the update step leaves GameState unchanged and
\* goes back to reading, with nothing broadcast.
C18_MisshapenRejected ==
    [][\A s \in Sessions :
          (pc[s] = "UpdWait" /\ pc'[s] # "UpdWait"
             /\ ~MatchesShape(msg[s].Payload)) =>
              /\ gameState' = gameState
              /\ pc'[s] = "Read"]_vars

\* C19: GameState changes only in the step that applies a paddle_update
\* the server has accepted; every other step leaves both paddles alone.
C19_OnlyUpdatesChangeGameState ==
    [][gameState' # gameState =>
          \E s \in Sessions :
              /\ InCriticalSection(s)
              /\ pc[s] = "UpdWait"
              /\ msg[s].Type = TypePaddleUpdate
              /\ pc'[s] = "BcastRLock"]_vars

\* A paddle has been moved by an update, and since then a frame of another
\* type was read or a session was unregistered.
C19_Witness ==
    /\ gameState.LeftPaddle # InitialPaddle
    /\ \E s \in Sessions : pc[s] = "Closed" /\ Len(inbox[s]) > 0

\* C20: whenever no session holds the registry lock in exclusive mode the
\* counter equals the size of the ConnectionSet and is not negative.
C20_CountMatchesSet ==
    (\A s \in Sessions : ~HoldsExclusive(s)) =>
        /\ connectionCount = Cardinality(connections)
        /\ connectionCount >= 0

\* A connection was registered and unregistered again while another one
\* stayed registered.
C20_Witness ==
    /\ \A s \in Sessions : ~HoldsExclusive(s)
    /\ connectionCount = 1
    /\ \E c \in Sessions : pc[c] = "Closed" /\ Len(inbox[c]) > 0

\* Session s stands at a conn.WriteJSON call on connection c, with no lock
\* or channel between it and the socket: a write of its broadcast pass, or
\* the initial message to its own connection.
AtWriteJSON(s, c) ==
    \/ ENABLED Deliver(s, c)
    \/ s = c /\ ENABLED SendInitial(s)

\* C21: at most one session at a time is writing a frame to any given
\* connection: no two sessions stand at a write to the same connection
\* with nothing that orders one write after the other.
C21_OneWriterPerConnection ==
    \A c \in Sessions : \A s \in Sessions : \A r \in Sessions \ {s} :
        ~(AtWriteJSON(s, c) /\ AtWriteJSON(r, c))

\* Nothing is in progress and no channel has failed: every session is
\* either not connected or back at ReadJSON, so every update that was sent
\* has been applied and its broadcast delivered.
Quiescent ==
    /\ closed = {}
    /\ \A s \in Sessions : pc[s] \in {"Connecting", "Read"}

\* C22: once all sent updates have been applied and all their broadcasts
\* delivered with no channel failing, the state every registered client
\* derives from the messages it received, in arrival order, equals the
\* server's GameState.
C22_ClientsAgreeWithServer ==
    Quiescent =>
        \A c \in connections :
            ClientState(inbox[c]) = EncodeGameState(gameState)

====
